---------------------------- MODULE Spec2Model ----------------------------
(***************************************************************************)
(* A model of forte_world's scene graph (src/src/lib.rs, the Node that the *)
(* define_world! macro generates): a tree of nodes owned by the host, the  *)
(* lifecycle passes of add_child / remove_child, the per-frame update pass *)
(* and the render pass.                                                    *)
(*                                                                         *)
(* Nodes are named by the order in which the host creates them (1, 2, ..); *)
(* a Rust Node has no such name, it is only used here to tell the nodes    *)
(* apart in the history variables.  A Vec<Node> is a sequence of names.    *)
(* Vector3<f32> is a triple of small integers (exact in f32), and a        *)
(* rotation is an element of the quaternion group {+-1, +-i, +-j, +-k},    *)
(* whose Hamilton product is exact and does not commute.                   *)
(***************************************************************************)
EXTENDS Integers, Sequences, FiniteSets, TLC

\* ------------------------------------------------------------------ bounds

\* The largest coordinate of a corner of a box tested for overlap
\* (OverlapSpec); the corners have coordinates 0..MaxCoord on each axis.
MaxCoord == 2

\* Nodes the host creates in one run when it gives them transforms and boxes
\* (Spec).
MaxNodes == 3
\* Nodes the host creates in one run when it leaves their transforms and boxes
\* at the default (TreeSpec).
MaxTreeNodes == 4
\* Detached nodes (not yet attached, owned by a host variable) at one time.
MaxDetached == 1

NodeIds == 1..(IF MaxTreeNodes > MaxNodes THEN MaxTreeNodes ELSE MaxNodes)
NoNode == 0

\* ------------------------------------------------------- cgmath value types

VAdd(a, b) == <<a[1] + b[1], a[2] + b[2], a[3] + b[3]>>

mul_element_wise(a, b) == <<a[1] * b[1], a[2] * b[2], a[3] * b[3]>>

\* A unit quaternion s * u, s in {1, -1}, u in {"1", "i", "j", "k"}.
Quat(s, u) == [s |-> s, u |-> u]

\* The Hamilton product of two basis units.
UnitMul(a, b) ==
    IF a = "1" THEN Quat(1, b)
    ELSE IF b = "1" THEN Quat(1, a)
    ELSE IF a = b THEN Quat(-1, "1")
    ELSE IF <<a, b>> = <<"i", "j">> THEN Quat(1, "k")
    ELSE IF <<a, b>> = <<"j", "k">> THEN Quat(1, "i")
    ELSE IF <<a, b>> = <<"k", "i">> THEN Quat(1, "j")
    ELSE IF <<a, b>> = <<"j", "i">> THEN Quat(-1, "k")
    ELSE IF <<a, b>> = <<"k", "j">> THEN Quat(-1, "i")
    ELSE Quat(-1, "j")

QMul(p, q) == LET r == UnitMul(p.u, q.u) IN Quat(p.s * q.s * r.s, r.u)

Zero3 == <<0, 0, 0>>

\* Transform::default(): at the origin, no rotation, unit scale.
TransformDefault == [position |-> Zero3, rotation |-> Quat(1, "1"), scale |-> <<1, 1, 1>>]

\* Dimensions::default(): the degenerate box at the origin.
DimensionsDefault == [from |-> Zero3, to |-> Zero3]

\* Component::default() is Empty; CubeModel stands for the variants the
\* integrator lists in define_world!.
Empty == "Empty"
\* The boxes tested for overlap: any two corners, so that boxes with
\* from = to on some axis (flat) or from > to (inverted) are among them.
Coords == 0..MaxCoord
Points == Coords \X Coords \X Coords
Boxes == [from : Points, to : Points]

\* Dimensions::overlap with one axis forgotten.
overlap_without_z(self, other) ==
    /\ self.from[1] < other.to[1] /\ other.from[1] < self.to[1]
    /\ self.from[2] < other.to[2] /\ other.from[2] < self.to[2]

\* Dimensions::overlap with self's lower x bound compared inclusively.
overlap_inclusive_from_x(self, other) ==
    /\ self.from[1] <= other.to[1] /\ other.from[1] < self.to[1]
    /\ self.from[2] < other.to[2] /\ other.from[2] < self.to[2]
    /\ self.from[3] < other.to[3] /\ other.from[3] < self.to[3]

\* self.overlap(&other)
overlap(self, other) ==
    /\ self.from[1] < other.to[1] /\ other.from[1] < self.to[1]
    /\ self.from[2] < other.to[2] /\ other.from[2] < self.to[2]
    /\ self.from[3] < other.to[3] /\ other.from[3] < self.to[3]

\* No overlap test has been made.
NoCall == [called |-> FALSE, self |-> DimensionsDefault,
           other |-> DimensionsDefault, result |-> FALSE, swapped |-> FALSE]

Components == {Empty, "CubeModel"}

\* Node::default().
NodeDefault ==
    [transform |-> TransformDefault,
     global_transform |-> TransformDefault,
     rel_min_dimensions |-> DimensionsDefault,
     dimensions |-> DimensionsDefault,
     component |-> Empty,
     children |-> <<>>]

\* --------------------------------------------------------- the host's inputs

\* What the host makes a node with: Node::default() with its public fields
\* (component, transform, rel_min_dimensions) set.
NodeKinds ==
    {[component |-> Empty, transform |-> TransformDefault,
      rel_min_dimensions |-> DimensionsDefault],
     [component |-> "CubeModel",
      transform |-> [position |-> <<1, -2, 3>>, rotation |-> Quat(1, "i"),
                     scale |-> <<2, 1, -1>>],
      rel_min_dimensions |-> [from |-> <<-1, 0, -2>>, to |-> <<2, 1, 0>>]],
     [component |-> "CubeModel",
      transform |-> [position |-> <<-1, 1, 0>>, rotation |-> Quat(1, "j"),
                     scale |-> <<1, 3, 2>>],
      rel_min_dimensions |-> DimensionsDefault]}

\* The same with only the component set.
PlainKinds ==
    {[component |-> c, transform |-> TransformDefault,
      rel_min_dimensions |-> DimensionsDefault] : c \in Components}

\* let mut node = Node::default(); node.component = ..; node.transform = ..;
\* node.rel_min_dimensions = ..;
NewNodeOf(k) ==
    [NodeDefault EXCEPT !.component = k.component, !.transform = k.transform,
                        !.rel_min_dimensions = k.rel_min_dimensions]

\* The parent transforms the host starts an update pass with: the identity
\* (the documented call) and one that is not.
PreviousChoices ==
    <<TransformDefault,
      [position |-> <<0, 2, -1>>, rotation |-> Quat(1, "k"), scale |-> <<3, 1, 1>>]>>

\* -------------------------------------------------------------------- state

VARIABLES
    nodes,          \* name -> Node (NodeDefault for a name not yet created)
    root,           \* the host's root node, NoNode once the host dropped it
    detached,       \* the nodes the host holds that are attached nowhere
    allocated,      \* how many nodes the host has created
    dropped,        \* the nodes that have been dropped
    trace,          \* what the last operation did, in program order
    added_calls,    \* name -> invocations of the added callback so far
    removed_calls,  \* name -> invocations of the removed callback so far
    lastOp,         \* the last operation and its arguments
    repeated,       \* the last operation was an update pass that directly
                    \* followed an update pass with the same parent transform
    panicked,       \* the last operation panicked
    overlap_call,   \* the last pair of boxes tested for overlap, and the
                    \* results of the test in both directions
    inserted        \* name -> the children attached to the node and not
                    \* removed since, in the order of their add_child calls

vars == <<nodes, root, detached, allocated, dropped, trace, added_calls,
          removed_calls, lastOp, repeated, panicked, overlap_call, inserted>>

Event(ev, n) == [ev |-> ev, node |-> n]

Op(op, n, arg) == [op |-> op, node |-> n, arg |-> arg]

\* ------------------------------------------------------- reading the tree

RECURSIVE Subtree(_, _)
\* The names of the nodes of the subtree rooted at n.
Subtree(ns, n) ==
    {n} \cup UNION {Subtree(ns, ns[n].children[i]) : i \in 1..Len(ns[n].children)}

\* The nodes the host owns: its root's tree and its detached trees.
Owned(ns, r, det) ==
    (IF r = NoNode THEN {} ELSE Subtree(ns, r))
    \cup UNION {Subtree(ns, d) : d \in det}

\* Position i (from 1) filled with the last element, which is popped:
\* Vec::swap_remove.
RemoveAt_swap(s, i) ==
    IF i = Len(s) THEN SubSeq(s, 1, Len(s) - 1)
    ELSE [k \in 1..(Len(s) - 1) |-> IF k = i THEN s[Len(s)] ELSE s[k]]

\* Position i (from 1) taken out of a sequence: Vec::remove.
RemoveAt(s, i) == SubSeq(s, 1, i - 1) \o SubSeq(s, i + 1, Len(s))

\* The record of attached children once the nodes in gone are dropped: they
\* are struck out wherever they stand, and have no children themselves.
Forget(ins, gone) ==
    [n \in NodeIds |->
       IF n \in gone THEN <<>>
       ELSE SelectSeq(ins[n], LAMBDA c : c \notin gone)]

\* How often the callback ev was invoked on n in a trace.
Count(tr, ev, n) == Cardinality({i \in 1..Len(tr) : tr[i] = Event(ev, n)})

\* ---------------------------------------------------------------- accessors

\* n.global_transform(): the accessor hands out the field `transform`.
global_transform(ns, n) == ns[n].transform

\* ------------------------------------------------------ lifecycle dispatch

\* The callbacks of a variant ($added, $update, $removed, $render): what
\* they do is the integrator's; here each records that it was invoked.
added(ns, n) == <<Event("added", n)>>

removed(ns, n) == <<Event("removed", n)>>

render(ns, n) == <<Event("render", n)>>

RECURSIVE call_add_recr(_, _)
RECURSIVE add_each(_, _)
\* children.iter_mut().for_each(|child| child.call_add_recr())
add_each(ns, kids) ==
    IF kids = <<>> THEN <<>>
    ELSE call_add_recr(ns, Head(kids)) \o add_each(ns, Tail(kids))

\* call_add_recr with the two statements in the other order.
call_add_recr_children_first(ns, n) ==
    add_each(ns, ns[n].children)
    \o (IF ns[n].component = Empty THEN <<>> ELSE added(ns, n))

\* The trace of call_add_recr on n: the match on the component, then the
\* children in list order.
call_add_recr(ns, n) ==
    (IF ns[n].component = Empty THEN <<>> ELSE added(ns, n))
    \o add_each(ns, ns[n].children)

RECURSIVE call_remove_recr(_, _)
RECURSIVE remove_each(_, _)
\* children.iter_mut().for_each(|child| child.call_remove_recr())
remove_each(ns, kids) ==
    IF kids = <<>> THEN <<>>
    ELSE call_remove_recr(ns, Head(kids)) \o remove_each(ns, Tail(kids))

\* call_remove_recr that returns at an Empty node without walking its
\* children.
call_remove_recr_stop_at_empty(ns, n) ==
    IF ns[n].component = Empty THEN <<>>
    ELSE removed(ns, n) \o remove_each(ns, ns[n].children)

call_remove_recr(ns, n) ==
    (IF ns[n].component = Empty THEN <<>> ELSE removed(ns, n))
    \o remove_each(ns, ns[n].children)

\* A set of nodes is dropped: their memory is gone.  Only the component's
\* variant is kept, for the history of which callbacks a node was owed.
DropNodes(ns, S) ==
    [n \in NodeIds |->
        IF n \in S THEN [NodeDefault EXCEPT !.component = ns[n].component]
        ELSE ns[n]]

\* add_child without its second statement: the child is pushed, no callback.
add_child_push_only(ns, p, c) ==
    /\ nodes' = [ns EXCEPT ![p].children = Append(@, c)]
    /\ trace' = <<Event("push", c)>>
    /\ UNCHANGED <<added_calls, removed_calls, dropped, panicked>>

\* add_child that also places the new child at once: its global position
\* and box are set from the parent's stored global position.
add_child_placing(ns, p, c) ==
    LET at == [i \in 1..3 |-> ns[c].transform.position[i]
                               + ns[p].global_transform.position[i]]
        pushed == [ns EXCEPT ![p].children = Append(@, c),
                             ![c].global_transform.position = at,
                             ![c].dimensions = [from |-> at, to |-> at]]
        tr == <<Event("push", c)>> \o call_add_recr(pushed, c)
    IN /\ nodes' = pushed
       /\ trace' = tr
       /\ added_calls' = [n \in NodeIds |-> added_calls[n] + Count(tr, "added", n)]
       /\ UNCHANGED <<removed_calls, dropped, panicked>>

\* self.add_child(child), self = p, in the tree ns: push, then call_add_recr
\* on the last child.
add_child(ns, p, c) ==
    LET pushed == [ns EXCEPT ![p].children = Append(@, c)]
        last == pushed[p].children[Len(pushed[p].children)]
        tr == <<Event("push", c)>> \o call_add_recr(pushed, last)
    IN /\ nodes' = pushed
       /\ trace' = tr
       /\ added_calls' = [n \in NodeIds |-> added_calls[n] + Count(tr, "added", n)]
       /\ UNCHANGED <<removed_calls, dropped, panicked>>

\* remove_child that looks the child up with a checked get and does nothing
\* when there is none.
remove_child_checked_get(p, idx) ==
    IF idx < Len(nodes[p].children)
    THEN LET c == nodes[p].children[idx + 1]
             tr == call_remove_recr(nodes, c) \o <<Event("remove", c)>>
             gone == Subtree(nodes, c)
             cut == [nodes EXCEPT ![p].children = RemoveAt(@, idx + 1)]
         IN /\ trace' = tr
            /\ removed_calls' =
                 [n \in NodeIds |-> removed_calls[n] + Count(tr, "removed", n)]
            /\ nodes' = DropNodes(cut, gone)
            /\ dropped' = dropped \cup gone
            /\ UNCHANGED <<added_calls, panicked>>
    ELSE /\ trace' = <<>>
         /\ UNCHANGED <<nodes, dropped, added_calls, removed_calls, panicked>>

\* remove_child that takes the child out of the list first and walks it after.
remove_child_detach_first(p, idx) ==
    IF idx < Len(nodes[p].children)
    THEN LET c == nodes[p].children[idx + 1]
             tr == <<Event("remove", c)>> \o call_remove_recr(nodes, c)
             gone == Subtree(nodes, c)
             cut == [nodes EXCEPT ![p].children = RemoveAt(@, idx + 1)]
         IN /\ trace' = tr
            /\ removed_calls' =
                 [n \in NodeIds |-> removed_calls[n] + Count(tr, "removed", n)]
            /\ nodes' = DropNodes(cut, gone)
            /\ dropped' = dropped \cup gone
            /\ UNCHANGED <<added_calls, panicked>>
    ELSE /\ panicked' = TRUE
         /\ trace' = <<>>
         /\ UNCHANGED <<nodes, dropped, added_calls, removed_calls>>

\* self.remove_child(idx), self = p: children[idx] panics when idx is out of
\* range; otherwise call_remove_recr on that child, then Vec::remove, whose
\* result (the child and its subtree) is dropped.
remove_child(p, idx) ==
    IF idx < Len(nodes[p].children)
    THEN LET c == nodes[p].children[idx + 1]
             tr == call_remove_recr(nodes, c) \o <<Event("remove", c)>>
             gone == Subtree(nodes, c)
             cut == [nodes EXCEPT ![p].children = RemoveAt(@, idx + 1)]
         IN /\ trace' = tr
            /\ removed_calls' =
                 [n \in NodeIds |-> removed_calls[n] + Count(tr, "removed", n)]
            /\ nodes' = DropNodes(cut, gone)
            /\ dropped' = dropped \cup gone
            /\ UNCHANGED <<added_calls, panicked>>
    ELSE /\ panicked' = TRUE
         /\ trace' = <<>>
         /\ UNCHANGED <<nodes, dropped, added_calls, removed_calls>>

\* ------------------------------------------------------------- render pass

RECURSIVE draw_node(_, _)
RECURSIVE draw_each(_, _)
\* node.children().iter().for_each(|child| self.draw_node(app, child))
draw_each(ns, kids) ==
    IF kids = <<>> THEN <<>>
    ELSE draw_node(ns, Head(kids)) \o draw_each(ns, Tail(kids))

\* draw_node that returns at an Empty node instead of going on to its children.
draw_node_stop_at_empty(ns, n) ==
    IF ns[n].component = Empty THEN <<>>
    ELSE render(ns, n) \o draw_each(ns, ns[n].children)

draw_node(ns, n) ==
    (IF ns[n].component = Empty THEN <<>> ELSE render(ns, n))
    \o draw_each(ns, ns[n].children)

\* ------------------------------------------------------------- update pass

\* The $update callback of a variant, called with the node: the record of
\* the invocation holds the derived state the callback finds on the node.
update_cb(ns, n) ==
    <<[ev |-> "update", node |-> n,
       global_transform |-> ns[n].global_transform,
       dimensions |-> ns[n].dimensions]>>

\* The composition with the rotations multiplied in the other order.
ComposeTransform_local_first(previous, local) ==
    [position |-> VAdd(local.position, previous.position),
     rotation |-> QMul(local.rotation, previous.rotation),
     scale |-> mul_element_wise(local.scale, previous.scale)]

\* The new global transform of a node from its parent's (previous) and its
\* own local one.
ComposeTransform(previous, local) ==
    [position |-> VAdd(local.position, previous.position),
     rotation |-> QMul(previous.rotation, local.rotation),
     scale |-> mul_element_wise(local.scale, previous.scale)]

\* The starting dimensions: the local box moved by the global position.
SeedDimensions(global, rel) ==
    [from |-> VAdd(global.position, rel.from),
     to |-> VAdd(global.position, rel.to)]

Lower(a, b) == IF a < b THEN a ELSE b

Higher(a, b) == IF a > b THEN a ELSE b

\* The comparisons with the last one (to.z) forgotten.
ExpandDimensions_without_to_z(dims, child) ==
    [from |-> <<Lower(child.from[1], dims.from[1]),
                Lower(child.from[2], dims.from[2]),
                Lower(child.from[3], dims.from[3])>>,
     to |-> <<Higher(child.to[1], dims.to[1]),
              Higher(child.to[2], dims.to[2]),
              dims.to[3]>>]

\* The six comparisons after a child's update: each component of from is
\* lowered to the child's, each component of to is raised to the child's.
ExpandDimensions(dims, child) ==
    [from |-> <<Lower(child.from[1], dims.from[1]),
                Lower(child.from[2], dims.from[2]),
                Lower(child.from[3], dims.from[3])>>,
     to |-> <<Higher(child.to[1], dims.to[1]),
              Higher(child.to[2], dims.to[2]),
              Higher(child.to[3], dims.to[3])>>]

RECURSIVE update(_, _, _)
RECURSIVE update_each(_, _, _, _)
\* children.iter_mut().for_each(|child| { child.update(&global_transform);
\* ... }): st is the tree and the trace so far, dims the working box.
update_each(st, kids, global, dims) ==
    IF kids = <<>> THEN [st |-> st, dimensions |-> dims]
    ELSE LET after == update(st, Head(kids), global)
         IN update_each(after, Tail(kids), global,
                        ExpandDimensions(dims, after.nodes[Head(kids)].dimensions))

\* update that composes with the node's stored global_transform in place of
\* its local transform.
update_from_global(st, n, previous) ==
    LET global == ComposeTransform(previous, st.nodes[n].global_transform)
        seed == SeedDimensions(global, st.nodes[n].rel_min_dimensions)
        kids == update_each(st, st.nodes[n].children, global, seed)
        stored == [kids.st.nodes EXCEPT ![n].global_transform = global,
                                        ![n].dimensions = kids.dimensions]
    IN [nodes |-> stored,
        trace |-> kids.st.trace
                  \o (IF stored[n].component = Empty THEN <<>> ELSE update_cb(stored, n))]

\* update that starts from the box stored by the pass before, widened to the
\* new seed, in place of the seed alone.
update_from_old_dimensions(st, n, previous) ==
    LET global == ComposeTransform(previous, st.nodes[n].transform)
        seed == ExpandDimensions(st.nodes[n].dimensions,
                                 SeedDimensions(global, st.nodes[n].rel_min_dimensions))
        kids == update_each(st, st.nodes[n].children, global, seed)
        stored == [kids.st.nodes EXCEPT ![n].global_transform = global,
                                        ![n].dimensions = kids.dimensions]
    IN [nodes |-> stored,
        trace |-> kids.st.trace
                  \o (IF stored[n].component = Empty THEN <<>> ELSE update_cb(stored, n))]

\* update that dispatches to the callback on entry, before the children are
\* updated and before the new derived state is stored.
update_callback_first(st, n, previous) ==
    LET global == ComposeTransform(previous, st.nodes[n].transform)
        seed == SeedDimensions(global, st.nodes[n].rel_min_dimensions)
        called == [nodes |-> st.nodes,
                   trace |-> st.trace
                             \o (IF st.nodes[n].component = Empty THEN <<>>
                                 ELSE update_cb(st.nodes, n))]
        kids == update_each(called, st.nodes[n].children, global, seed)
        stored == [kids.st.nodes EXCEPT ![n].global_transform = global,
                                        ![n].dimensions = kids.dimensions]
    IN [nodes |-> stored, trace |-> kids.st.trace]

\* n.update(previous) on st = [nodes, trace]: the tree and the trace after.
update(st, n, previous) ==
    LET global == ComposeTransform(previous, st.nodes[n].transform)
        seed == SeedDimensions(global, st.nodes[n].rel_min_dimensions)
        kids == update_each(st, st.nodes[n].children, global, seed)
        stored == [kids.st.nodes EXCEPT ![n].global_transform = global,
                                        ![n].dimensions = kids.dimensions]
    IN [nodes |-> stored,
        trace |-> kids.st.trace
                  \o (IF stored[n].component = Empty THEN <<>> ELSE update_cb(stored, n))]

\* ------------------------------------------------------------ host actions

\* let mut node = ..: a node the host holds in a variable, attached nowhere.
NewNode(limit, kinds) ==
    /\ ~panicked
    /\ UNCHANGED <<overlap_call, inserted>>
    /\ allocated < limit
    /\ Cardinality(detached) < MaxDetached
    /\ \E k \in kinds : nodes' = [nodes EXCEPT ![allocated + 1] = NewNodeOf(k)]
    /\ allocated' = allocated + 1
    /\ detached' = detached \cup {allocated + 1}
    /\ trace' = <<>>
    /\ lastOp' = Op("new", allocated + 1, 0)
    /\ repeated' = FALSE
    /\ UNCHANGED <<root, dropped, added_calls, removed_calls, panicked>>

\* An add_child call after which the host still holds the child it passed.
AddChild_keeping ==
    /\ ~panicked
    /\ UNCHANGED overlap_call
    /\ \E p \in Owned(nodes, root, detached), c \in detached :
         /\ p \notin Subtree(nodes, c)
         /\ add_child(nodes, p, c)
         /\ detached' = detached
         /\ lastOp' = Op("add_child", p, c)
         /\ inserted' = [inserted EXCEPT ![p] = Append(@, c)]
    /\ repeated' = FALSE
    /\ UNCHANGED <<root, allocated>>

\* p.add_child(c) with a node c the host holds: c is moved into the call, so
\* the host holds it no longer.
AddChild ==
    /\ ~panicked
    /\ UNCHANGED overlap_call
    /\ \E p \in Owned(nodes, root, detached), c \in detached :
         /\ p \notin Subtree(nodes, c)
         /\ add_child(nodes, p, c)
         /\ detached' = detached \ {c}
         /\ lastOp' = Op("add_child", p, c)
         /\ inserted' = [inserted EXCEPT ![p] = Append(@, c)]
    /\ repeated' = FALSE
    /\ UNCHANGED <<root, allocated>>

\* p.add_child(Node { .. }): the child is made in the call's argument.
AddNewChild(limit, kinds) ==
    /\ ~panicked
    /\ UNCHANGED overlap_call
    /\ allocated < limit
    /\ \E p \in Owned(nodes, root, detached), k \in kinds :
         /\ add_child([nodes EXCEPT ![allocated + 1] = NewNodeOf(k)], p, allocated + 1)
         /\ lastOp' = Op("add_child", p, allocated + 1)
         /\ inserted' = [inserted EXCEPT ![p] = Append(@, allocated + 1)]
    /\ allocated' = allocated + 1
    /\ repeated' = FALSE
    /\ UNCHANGED <<root, detached>>

\* p.remove_child(idx), with every index of p's list and the first one past it.
RemoveChild ==
    /\ ~panicked
    /\ UNCHANGED overlap_call
    /\ \E p \in Owned(nodes, root, detached) :
         \E idx \in 0..Len(nodes[p].children) :
            /\ remove_child(p, idx)
            /\ lastOp' = Op("remove_child", p, idx)
    /\ inserted' = Forget(inserted, dropped')
    /\ repeated' = FALSE
    /\ UNCHANGED <<root, detached, allocated>>

\* root.update(&previous), previous one of the first `choices` parent transforms.
Update(choices) ==
    /\ ~panicked
    /\ UNCHANGED <<overlap_call, inserted>>
    /\ root # NoNode
    /\ \E k \in 1..choices :
         LET after == update([nodes |-> nodes, trace |-> <<>>], root, PreviousChoices[k])
         IN /\ nodes' = after.nodes
            /\ trace' = after.trace
            /\ lastOp' = Op("update", root, k)
            /\ repeated' = (lastOp = Op("update", root, k))
    /\ UNCHANGED <<root, detached, allocated, dropped, added_calls, removed_calls, panicked>>

\* A draw pass that recomputes the derived state on its way, as if it took
\* the tree by mutable reference.
Draw_refreshing ==
    /\ ~panicked
    /\ UNCHANGED <<overlap_call, inserted>>
    /\ root # NoNode
    /\ trace' = draw_node(nodes, root)
    /\ nodes' = update([nodes |-> nodes, trace |-> <<>>], root, TransformDefault).nodes
    /\ lastOp' = Op("draw", root, 0)
    /\ repeated' = FALSE
    /\ UNCHANGED <<root, detached, allocated, dropped, added_calls,
                   removed_calls, panicked>>

\* pass.draw_node(&app, &root)
Draw ==
    /\ ~panicked
    /\ UNCHANGED <<overlap_call, inserted>>
    /\ root # NoNode
    /\ trace' = draw_node(nodes, root)
    /\ lastOp' = Op("draw", root, 0)
    /\ repeated' = FALSE
    /\ UNCHANGED <<nodes, root, detached, allocated, dropped, added_calls,
                   removed_calls, panicked>>

\* The tree rooted at t goes out of scope.  Node has no Drop implementation:
\* the fields are freed and no callback runs.
drop_node(t) ==
    /\ nodes' = DropNodes(nodes, Subtree(nodes, t))
    /\ dropped' = dropped \cup Subtree(nodes, t)
    /\ trace' = <<>>
    /\ UNCHANGED <<added_calls, removed_calls, panicked>>

\* The host drops its root.
DropRoot ==
    /\ ~panicked
    /\ UNCHANGED overlap_call
    /\ root # NoNode
    /\ drop_node(root)
    /\ root' = NoNode
    /\ lastOp' = Op("drop", root, 0)
    /\ inserted' = Forget(inserted, dropped')
    /\ repeated' = FALSE
    /\ UNCHANGED <<detached, allocated>>

\* The host's root: let mut root = Node::default(), with its public fields set.
InitOf(kinds) ==
    /\ \E k \in kinds :
         nodes = [n \in NodeIds |-> IF n = 1 THEN NewNodeOf(k) ELSE NodeDefault]
    /\ root = 1
    /\ detached = {}
    /\ allocated = 1
    /\ dropped = {}
    /\ trace = <<>>
    /\ added_calls = [n \in NodeIds |-> 0]
    /\ removed_calls = [n \in NodeIds |-> 0]
    /\ lastOp = Op("init", 1, 0)
    /\ repeated = FALSE
    /\ panicked = FALSE
    /\ overlap_call = NoCall
    /\ inserted = [n \in NodeIds |-> <<>>]

Init == InitOf(NodeKinds)

Next ==
    \/ NewNode(MaxNodes, NodeKinds)
    \/ AddChild
    \/ AddNewChild(MaxNodes, NodeKinds)
    \/ RemoveChild
    \/ Update(Len(PreviousChoices))
    \/ Draw
    \/ DropRoot

\* The host's calls on nodes with any of the transforms and boxes.
Spec == Init /\ [][Next]_vars

TreeInit == InitOf(PlainKinds)

TreeNext ==
    \/ NewNode(MaxTreeNodes, PlainKinds)
    \/ AddChild
    \/ AddNewChild(MaxTreeNodes, PlainKinds)
    \/ RemoveChild
    \/ Update(1)
    \/ Draw
    \/ DropRoot

\* A box the host is about to test against others; the host has built no
\* tree, so there are no nodes.
OverlapInit ==
    /\ nodes = <<>>
    /\ root = NoNode
    /\ detached = {}
    /\ allocated = 0
    /\ dropped = {}
    /\ trace = <<>>
    /\ added_calls = <<>>
    /\ removed_calls = <<>>
    /\ lastOp = Op("init", NoNode, 0)
    /\ repeated = FALSE
    /\ panicked = FALSE
    /\ inserted = <<>>
    /\ \E a \in Boxes : overlap_call = [NoCall EXCEPT !.self = a]

\* a.overlap(&b) and b.overlap(&a)
Overlap ==
    /\ ~overlap_call.called
    /\ \E b \in Boxes :
         overlap_call' =
           [overlap_call EXCEPT
              !.called = TRUE,
              !.other = b,
              !.result = overlap(overlap_call.self, b),
              !.swapped = overlap(b, overlap_call.self)]
    /\ UNCHANGED <<nodes, root, detached, allocated, dropped, trace,
                   added_calls, removed_calls, lastOp, repeated, panicked,
                   inserted>>

OverlapNext == Overlap

\* The overlap test on every pair of boxes with corners in Points.
OverlapSpec == OverlapInit /\ [][OverlapNext]_vars

\* The host's calls on larger trees of nodes that differ only in their
\* component, with the update pass started from the identity.
TreeSpec == TreeInit /\ [][TreeNext]_vars

\* ------------------------------------------------------------- properties

\* The nodes of a subtree whose component is not Empty.
Visible(ns, top) == {n \in Subtree(ns, top) : ns[n].component # Empty}

\* Where the callback ev on n stands in a trace.
Pos(tr, ev, n) == CHOOSE i \in 1..Len(tr) : tr[i] = Event(ev, n)

\* tr is the pre-order walk of the subtree of top invoking ev: one invocation
\* for each non-Empty node and nothing else, a node before its descendants,
\* and the subtree of a child before the subtree of a later sibling.
PreOrderTrace(ns, top, tr, ev) ==
    /\ Len(tr) = Cardinality(Visible(ns, top))
    /\ \A n \in Visible(ns, top) : \E i \in 1..Len(tr) : tr[i] = Event(ev, n)
    /\ \A x \in Visible(ns, top) : \A y \in Visible(ns, x) \ {x} :
         Pos(tr, ev, x) < Pos(tr, ev, y)
    /\ \A x \in Subtree(ns, top) : \A i, j \in 1..Len(ns[x].children) :
         i < j =>
           \A a \in Visible(ns, ns[x].children[i]), b \in Visible(ns, ns[x].children[j]) :
              Pos(tr, ev, a) < Pos(tr, ev, b)

\* C1: one add_child(p, c) appends c as the last element of p's children,
\* then invokes added exactly once on every non-Empty node of c's subtree and
\* on no other node, each node before its descendants and sibling subtrees in
\* list order.
C1_AddChildPreOrder ==
    [][lastOp'.op = "add_child" =>
         LET p == lastOp'.node
             c == lastOp'.arg
         IN /\ nodes'[p].children = Append(nodes[p].children, c)
            /\ trace' # <<>>
            /\ Head(trace') = Event("push", c)
            /\ PreOrderTrace(nodes', c, Tail(trace'), "added")
            /\ \A n \in NodeIds :
                 added_calls'[n] =
                   added_calls[n] + (IF n \in Visible(nodes', c) THEN 1 ELSE 0)]_vars

\* A subtree of three non-Empty nodes, the top one with two children, has
\* just been attached.
C1_Witness ==
    /\ lastOp.op = "add_child"
    /\ Len(nodes[lastOp.arg].children) = 2
    /\ Cardinality(Visible(nodes, lastOp.arg)) = 3
    /\ Len(trace) = 4

\* The nodes that were attached with add_child: all but the tops of the
\* host's trees.
Attached == Owned(nodes, root, detached) \ (detached \cup {root})

\* C2: every non-Empty node that add_child attached has had its added
\* callback invoked exactly once, never twice.
C2_AddedExactlyOnce ==
    \A n \in Attached : nodes[n].component # Empty => added_calls[n] = 1

\* C3: remove_child(p, idx) with a valid idx invokes removed exactly once on
\* every non-Empty node of the subtree of p.children[idx], in pre-order with
\* siblings in list order, and only then takes the child out of p.children.
C3_RemoveChildPreOrder ==
    [][(lastOp'.op = "remove_child" /\ lastOp'.arg < Len(nodes[lastOp'.node].children)) =>
         LET p == lastOp'.node
             c == nodes[p].children[lastOp'.arg + 1]
         IN /\ trace' # <<>>
            /\ trace'[Len(trace')] = Event("remove", c)
            /\ PreOrderTrace(nodes, c, SubSeq(trace', 1, Len(trace') - 1), "removed")
            /\ \A n \in NodeIds :
                 removed_calls'[n] =
                   removed_calls[n] + (IF n \in Visible(nodes, c) THEN 1 ELSE 0)
            /\ \A i \in 1..Len(nodes'[p].children) : nodes'[p].children[i] # c]_vars

\* A subtree with three removed callbacks has just been removed.
C3_Witness ==
    /\ lastOp.op = "remove_child"
    /\ ~panicked
    /\ Len(trace) = 4
    /\ trace[4].ev = "remove"
    /\ trace[4].node \in dropped

\* C4: no non-Empty node has been dropped without its removed callback
\* having been invoked.
C4_DroppedAfterRemoved ==
    \A n \in dropped : nodes[n].component # Empty => removed_calls[n] >= 1

\* The node whose children list holds n.
Parent(ns, n) ==
    CHOOSE p \in NodeIds : \E i \in 1..Len(ns[p].children) : ns[p].children[i] = n

RECURSIVE PathSum(_, _, _)
\* The sum of the local positions on the path from top down to n.
PathSum(ns, top, n) ==
    IF n = top THEN ns[n].transform.position
    ELSE LET up == PathSum(ns, top, Parent(ns, n))
             own == ns[n].transform.position
         IN <<own[1] + up[1], own[2] + up[2], own[3] + up[3]>>

\* The last operation was an update pass from the root with the identity.
UpdatedFromIdentity ==
    lastOp.op = "update" /\ PreviousChoices[lastOp.arg] = TransformDefault

\* C5: after an update pass from the root with the identity transform, every
\* node's global_transform is its parent's global_transform composed with its
\* own transform (positions added, scales multiplied element-wise, rotation =
\* parent's * own); so its global position is the sum of the local positions
\* on its path from the root, and the root's global_transform is its transform.
C5_GlobalTransformComposed ==
    UpdatedFromIdentity =>
      /\ nodes[root].global_transform = nodes[root].transform
      /\ \A n \in Subtree(nodes, root) \ {root} :
           LET above == nodes[Parent(nodes, n)].global_transform
               own == nodes[n].transform
               g == nodes[n].global_transform
           IN /\ g.position = <<own.position[1] + above.position[1],
                                own.position[2] + above.position[2],
                                own.position[3] + above.position[3]>>
              /\ g.scale = <<own.scale[1] * above.scale[1],
                             own.scale[2] * above.scale[2],
                             own.scale[3] * above.scale[3]>>
              /\ g.rotation = QMul(above.rotation, own.rotation)
              /\ g.position = PathSum(nodes, root, n)

\* After such a pass the tree holds a grandchild of the root whose rotation
\* does not commute with its parent's global rotation.
C5_Witness ==
    /\ UpdatedFromIdentity
    /\ \E n \in Subtree(nodes, root) \ {root} :
         /\ Parent(nodes, n) # root
         /\ QMul(nodes[Parent(nodes, n)].global_transform.rotation, nodes[n].transform.rotation)
              # QMul(nodes[n].transform.rotation, nodes[Parent(nodes, n)].global_transform.rotation)
         /\ nodes[n].global_transform.position # nodes[n].transform.position

Leq3(a, b) == a[1] <= b[1] /\ a[2] <= b[2] /\ a[3] <= b[3]

\* C6: after an update pass, the dimensions of every node n cover the
\* dimensions of every descendant of n (from component-wise <=, to
\* component-wise >=) and n's own local box moved by n's global position.
C6_BoundingBoxMonotone ==
    lastOp.op = "update" =>
      \A n \in Subtree(nodes, root) :
        /\ \A d \in Subtree(nodes, n) :
             /\ Leq3(nodes[n].dimensions.from, nodes[d].dimensions.from)
             /\ Leq3(nodes[d].dimensions.to, nodes[n].dimensions.to)
        /\ \A i \in 1..3 :
             /\ nodes[n].dimensions.from[i]
                  <= nodes[n].global_transform.position[i] + nodes[n].rel_min_dimensions.from[i]
             /\ nodes[n].dimensions.to[i]
                  >= nodes[n].global_transform.position[i] + nodes[n].rel_min_dimensions.to[i]

\* After an update pass the root's box was widened, in to.z among others, by
\* a grandchild whose box its parent's own box does not cover.
C6_Witness ==
    /\ lastOp.op = "update"
    /\ \E d \in Subtree(nodes, root) \ {root} :
         /\ Parent(nodes, d) # root
         /\ nodes[d].dimensions.to[3]
              > nodes[root].global_transform.position[3] + nodes[root].rel_min_dimensions.to[3]
         /\ nodes[d].dimensions.to[3]
              > nodes[Parent(nodes, d)].global_transform.position[3]
                  + nodes[Parent(nodes, d)].rel_min_dimensions.to[3]
         /\ nodes[d].dimensions.from[1]
              < nodes[root].global_transform.position[1] + nodes[root].rel_min_dimensions.from[1]

\* C7: a render pass from the root invokes render once on every non-Empty
\* node of the tree, in pre-order with siblings in list order, going through
\* Empty nodes to their children.
C7_DrawPreOrder ==
    lastOp.op = "draw" => PreOrderTrace(nodes, root, trace, "render")

\* The tree root -> [A, B], A -> [A1], all four non-Empty, has just been
\* drawn in the order root, A, A1, B.
C7_Witness ==
    /\ lastOp.op = "draw"
    /\ Len(nodes[root].children) = 2
    /\ LET A == nodes[root].children[1]
           B == nodes[root].children[2]
       IN /\ Len(nodes[A].children) = 1
          /\ trace = <<Event("render", root), Event("render", A),
                       Event("render", nodes[A].children[1]), Event("render", B)>>

\* C8: remove_child(p, idx) with idx >= the number of p's children panics:
\* no removed callback is invoked and no children list changes.
C8_OutOfRangePanics ==
    [][(lastOp'.op = "remove_child" /\ lastOp'.arg >= Len(nodes[lastOp'.node].children)) =>
         /\ panicked'
         /\ \A i \in 1..Len(trace') : trace'[i].ev # "removed"
         /\ removed_calls' = removed_calls
         /\ \A n \in NodeIds : nodes'[n].children = nodes[n].children
         /\ dropped' = dropped]_vars

\* An out-of-range remove_child on a node that has a non-Empty child.
C8_Witness ==
    /\ panicked
    /\ lastOp.op = "remove_child"
    /\ lastOp.arg = Len(nodes[lastOp.node].children)
    /\ lastOp.arg >= 1
    /\ nodes[nodes[lastOp.node].children[1]].component # Empty

\* C9: an update pass that directly follows an update pass with the same
\* parent transform leaves every node's global_transform and dimensions as
\* the first pass left them.
C9_UpdateIdempotent ==
    [][(lastOp.op = "update" /\ lastOp'.op = "update" /\ lastOp'.arg = lastOp.arg) =>
         \A n \in NodeIds :
            /\ nodes'[n].global_transform = nodes[n].global_transform
            /\ nodes'[n].dimensions = nodes[n].dimensions]_vars

\* A second pass in a row over a tree with a grandchild of the root whose
\* global position is not its local one.
C9_Witness ==
    /\ repeated
    /\ \E n \in Subtree(nodes, root) \ {root} :
         /\ Parent(nodes, n) # root
         /\ nodes[n].global_transform.position # nodes[n].transform.position
         /\ nodes[root].dimensions # nodes[n].dimensions

\* C10: an update or render callback is only ever invoked, on a node that
\* was attached with add_child, after an added callback on that node.
C10_AddedBeforeUpdateAndRender ==
    \A i \in 1..Len(trace) :
       (trace[i].ev \in {"update", "render"} /\ trace[i].node # root) =>
          added_calls[trace[i].node] >= 1

\* An update pass has invoked the update callback on a grandchild of the root.
C10_Witness ==
    /\ lastOp.op = "update"
    /\ \E i \in 1..Len(trace) :
         /\ trace[i].ev = "update"
         /\ trace[i].node # root
         /\ Parent(nodes, trace[i].node) # root
         /\ added_calls[trace[i].node] >= 1

\* C11: a render pass is read-only on the tree: a draw step changes no node's
\* transform, global_transform, rel_min_dimensions, dimensions, component or
\* children; it only writes to the draw context (the trace of render calls).
C11_DrawReadOnly ==
    [][lastOp'.op = "draw" =>
         /\ nodes' = nodes
         /\ root' = root
         /\ detached' = detached
         /\ dropped' = dropped
         /\ added_calls' = added_calls
         /\ removed_calls' = removed_calls]_vars

\* A tree has just been drawn whose derived state is out of date: a non-Empty
\* child of the root has a local position and still the default global one,
\* and its render callback was invoked.
C11_Witness ==
    /\ lastOp.op = "draw"
    /\ \E i \in 1..Len(nodes[root].children) :
         LET c == nodes[root].children[i]
         IN /\ nodes[c].transform.position # Zero3
            /\ nodes[c].global_transform = TransformDefault
            /\ \E j \in 1..Len(trace) : trace[j] = Event("render", c)

\* C12: overlap(a, b) is true exactly when a.from < b.to and b.from < a.to
\* hold strictly on each of x, y and z; so two boxes that only share a
\* boundary do not overlap, and a box never overlaps a box that lies strictly
\* outside it on some axis.
C12_OverlapStrict ==
    overlap_call.called =>
      LET a == overlap_call.self
          b == overlap_call.other
      IN /\ overlap_call.result =
              (\A i \in 1..3 : a.from[i] < b.to[i] /\ b.from[i] < a.to[i])
         /\ (\E i \in 1..3 : a.to[i] = b.from[i] \/ b.to[i] = a.from[i])
              => ~overlap_call.result
         /\ (\E i \in 1..3 : a.to[i] < b.from[i] \/ b.to[i] < a.from[i])
              => ~overlap_call.result

\* The boxes (0,0,0)-(1,1,1) and (1,1,1)-(2,2,2), which share one corner, have
\* been tested and found not to overlap.
C12_Witness ==
    /\ overlap_call.called
    /\ overlap_call.self = [from |-> <<0, 0, 0>>, to |-> <<1, 1, 1>>]
    /\ overlap_call.other = [from |-> <<1, 1, 1>>, to |-> <<2, 2, 2>>]
    /\ ~overlap_call.result

\* C13: overlap is symmetric: a.overlap(b) = b.overlap(a) for all boxes, the
\* flat and inverted ones included.
C13_OverlapSymmetric ==
    overlap_call.called => overlap_call.result = overlap_call.swapped

\* A box that is a single point has been tested against a box around it, and
\* the test is true in both directions.
C13_Witness ==
    /\ overlap_call.called
    /\ overlap_call.self.from = overlap_call.self.to
    /\ \A i \in 1..3 : overlap_call.other.from[i] < overlap_call.other.to[i]
    /\ overlap_call.result
    /\ overlap_call.swapped

\* Where the update callback on n stands in a trace.
UpdatePos(tr, n) ==
    CHOOSE i \in 1..Len(tr) : tr[i].ev = "update" /\ tr[i].node = n

\* C14: in an update pass the update callback is invoked exactly once on each
\* non-Empty node of the tree and on nothing else, in post-order: after the
\* callbacks of all nodes in the subtrees of its children, the children taken
\* in list order; and it is invoked after the node's global_transform and
\* dimensions have been stored, so that it finds the node's final derived
\* state.
C14_UpdatePostOrder ==
    lastOp.op = "update" =>
      /\ Len(trace) = Cardinality(Visible(nodes, root))
      /\ \A i \in 1..Len(trace) : trace[i].ev = "update"
      /\ \A n \in Visible(nodes, root) :
           /\ Cardinality({i \in 1..Len(trace) : trace[i].node = n}) = 1
           /\ trace[UpdatePos(trace, n)].global_transform = nodes[n].global_transform
           /\ trace[UpdatePos(trace, n)].dimensions = nodes[n].dimensions
      /\ \A x \in Visible(nodes, root) : \A y \in Visible(nodes, x) \ {x} :
           UpdatePos(trace, y) < UpdatePos(trace, x)
      /\ \A x \in Subtree(nodes, root) : \A i, j \in 1..Len(nodes[x].children) :
           i < j =>
             \A a \in Visible(nodes, nodes[x].children[i]),
                b \in Visible(nodes, nodes[x].children[j]) :
                UpdatePos(trace, a) < UpdatePos(trace, b)

\* An update pass over a chain of three non-Empty nodes in which the callback
\* on the grandchild found a global position that is not its local one and
\* the callback on the root found a box that is not its own seed.
C14_Witness ==
    /\ lastOp.op = "update"
    /\ Len(trace) = 3
    /\ \E n \in Visible(nodes, root) \ {root} :
         /\ Parent(nodes, n) # root
         /\ trace[UpdatePos(trace, n)].global_transform.position
              # nodes[n].transform.position
    /\ trace[UpdatePos(trace, root)].dimensions
         # SeedDimensions(nodes[root].global_transform,
                          nodes[root].rel_min_dimensions)

MinOf(S) == CHOOSE x \in S : \A y \in S : x <= y

MaxOf(S) == CHOOSE x \in S : \A y \in S : x >= y

\* The boxes that make up the box of n: its seed and the boxes of the
\* children it has now.
Parts(ns, n) ==
    {SeedDimensions(ns[n].global_transform, ns[n].rel_min_dimensions)}
      \cup {ns[ns[n].children[i]].dimensions : i \in 1..Len(ns[n].children)}

\* C15: after an update pass the dimensions of every node of the tree are
\* exactly the component-wise minimum (from) and maximum (to) over its seed
\* (rel_min_dimensions moved by its own global position) and the dimensions
\* of each of its current children: they are recomputed from scratch, so
\* that after remove_child and an update the box no longer includes the
\* removed subtree.
C15_DimensionsExact ==
    lastOp.op = "update" =>
      \A n \in Subtree(nodes, root) : \A i \in 1..3 :
         /\ nodes[n].dimensions.from[i] = MinOf({b.from[i] : b \in Parts(nodes, n)})
         /\ nodes[n].dimensions.to[i] = MaxOf({b.to[i] : b \in Parts(nodes, n)})

\* An update pass after a child of the root was removed, over a root that
\* still has a child and whose box is neither its seed nor the box of that
\* child.
C15_Witness ==
    /\ lastOp.op = "update"
    /\ dropped # {}
    /\ Len(nodes[root].children) = 1
    /\ nodes[root].dimensions
         # SeedDimensions(nodes[root].global_transform, nodes[root].rel_min_dimensions)
    /\ nodes[root].dimensions # nodes[nodes[root].children[1]].dimensions

\* C16: after an update pass started from the identity, the accessor
\* global_transform() of every node of the tree returns the node's derived
\* global transform, the composition of the local transforms along the path
\* from the root, also under ancestors with non-identity transforms.
C16_AccessorReturnsGlobal ==
    UpdatedFromIdentity =>
      \A n \in Subtree(nodes, root) :
         global_transform(nodes, n) = nodes[n].global_transform

\* The invocations of callbacks in a trace.
Callbacks(tr) ==
    {i \in 1..Len(tr) : tr[i].ev \in {"added", "removed", "update", "render"}}

\* The callbacks in tr are on the non-Empty nodes of the subtree of top, one
\* for each of them.
OnePerVisible(ns, top, tr) ==
    /\ Cardinality(Callbacks(tr)) = Cardinality(Visible(ns, top))
    /\ \A i \in Callbacks(tr) : tr[i].node \in Visible(ns, top)
    /\ \A n \in Visible(ns, top) : \E i \in Callbacks(tr) : tr[i].node = n

\* C17: an Empty component suppresses the callback and not the traversal: in
\* the add, remove, update and render passes no callback is invoked on an
\* Empty node, the pass still walks the children of an Empty node, and the
\* number of callbacks invoked is the number of non-Empty nodes of the
\* subtree walked.
C17_EmptySkipsCallbackOnly ==
    [][/\ lastOp'.op = "add_child" =>
            OnePerVisible(nodes', lastOp'.arg, trace')
       /\ (lastOp'.op = "remove_child" /\ lastOp'.arg < Len(nodes[lastOp'.node].children)) =>
            OnePerVisible(nodes, nodes[lastOp'.node].children[lastOp'.arg + 1], trace')
       /\ lastOp'.op = "update" => OnePerVisible(nodes', root', trace')
       /\ lastOp'.op = "draw" => OnePerVisible(nodes', root', trace')]_vars

\* An Empty child has just been removed, and the removed callback was
\* invoked on nodes below it.
C17_Witness ==
    /\ lastOp.op = "remove_child"
    /\ ~panicked
    /\ Len(trace) >= 2
    /\ trace[Len(trace)].ev = "remove"
    /\ nodes[trace[Len(trace)].node].component = Empty
    /\ trace[1].ev = "removed"

\* C18: the update pass is the only operation that changes derived state:
\* add_child, remove_child and draw leave the global_transform and the
\* dimensions of every node that is still there as they were; the attached
\* subtree and its parent keep their old derived state until the next update
\* pass.
C18_OnlyUpdateDerives ==
    [][lastOp'.op \in {"add_child", "remove_child", "draw"} =>
         \A n \in NodeIds \ dropped' :
            /\ nodes'[n].global_transform = nodes[n].global_transform
            /\ nodes'[n].dimensions = nodes[n].dimensions]_vars

\* A child with a local position has just been attached to a parent that an
\* update pass had placed away from the origin: the child's derived state is
\* still the default and the parent's box does not hold the child's position.
C18_Witness ==
    /\ lastOp.op = "add_child"
    /\ nodes[lastOp.node].global_transform.position # Zero3
    /\ nodes[lastOp.arg].transform.position # Zero3
    /\ nodes[lastOp.arg].global_transform = TransformDefault
    /\ nodes[lastOp.arg].dimensions = DimensionsDefault
    /\ ~Leq3(nodes[lastOp.node].dimensions.from,
             VAdd(nodes[lastOp.arg].transform.position,
                  nodes[lastOp.node].global_transform.position))

\* C19: the structural operations keep the order of siblings: add_child
\* appends the child as the last element of the parent's list, and
\* remove_child(idx) takes out exactly the element at idx and keeps the order
\* of the others; neither changes the list of any other remaining node.  So
\* the list of every node is, at all times, its attached and not yet removed
\* children in the order in which they were attached.
C19_SiblingOrder ==
    /\ [][/\ lastOp'.op = "add_child" =>
               /\ nodes'[lastOp'.node].children
                    = Append(nodes[lastOp'.node].children, lastOp'.arg)
               /\ \A n \in NodeIds \ {lastOp'.node} :
                    nodes'[n].children = nodes[n].children
          /\ (lastOp'.op = "remove_child"
                /\ lastOp'.arg < Len(nodes[lastOp'.node].children)) =>
               LET p == lastOp'.node
                   idx == lastOp'.arg + 1
               IN /\ Len(nodes'[p].children) = Len(nodes[p].children) - 1
                  /\ \A i \in 1..Len(nodes'[p].children) :
                       nodes'[p].children[i] =
                         nodes[p].children[IF i < idx THEN i ELSE i + 1]
                  /\ \A n \in NodeIds \ (dropped' \cup {p}) :
                       nodes'[n].children = nodes[n].children]_vars
    /\ [](\A n \in NodeIds : nodes[n].children = inserted[n])

\* The middle one of three children has just been removed: the two that are
\* left stand in the order in which they were attached.
C19_Witness ==
    /\ lastOp.op = "remove_child"
    /\ ~panicked
    /\ lastOp.arg = 1
    /\ Len(nodes[lastOp.node].children) = 2
    /\ nodes[lastOp.node].children = inserted[lastOp.node]

\* The nodes that exist: created and not dropped.
Live == (1..allocated) \ dropped

\* The nodes the host holds directly.
Tops == (IF root = NoNode THEN {} ELSE {root}) \cup detached

\* The places (parent, position) at which n stands in a children list.
Places(ns, n) ==
    {pi \in NodeIds \X (1..Cardinality(NodeIds)) :
       pi[2] <= Len(ns[pi[1]].children) /\ ns[pi[1]].children[pi[2]] = n}

RECURSIVE Below(_, _, _)
\* The nodes at most k levels below the nodes of S.
Below(ns, S, k) ==
    IF k = 0 \/ S = {} THEN {}
    ELSE LET kids == UNION {{ns[n].children[i] : i \in 1..Len(ns[n].children)} : n \in S}
         IN kids \cup Below(ns, kids, k - 1)

\* C20: the nodes form trees: every node that is not held directly by the
\* host (the root, or a node not yet attached) stands in exactly one
\* parent's children list, at one position; a node the host holds stands in
\* none; children lists name existing nodes only; and no node is its own
\* ancestor.
C20_TreeShaped ==
    /\ \A n \in Live :
         /\ Cardinality(Places(nodes, n)) = (IF n \in Tops THEN 0 ELSE 1)
         /\ n \notin Below(nodes, {n}, Cardinality(NodeIds))
         /\ \A i \in 1..Len(nodes[n].children) : nodes[n].children[i] \in Live
    /\ \A n \in NodeIds \ Live : Places(nodes, n) = {} /\ nodes[n].children = <<>>

\* A node that has a child of its own has just been attached below a node
\* that is itself a child: a tree four levels deep.
C20_Witness ==
    /\ lastOp.op = "add_child"
    /\ lastOp.node \notin Tops
    /\ nodes[lastOp.arg].children # <<>>
    /\ Cardinality(Subtree(nodes, root)) = 4

=============================================================================
